---- MODULE Spec2Model ----
(***************************************************************************)
(* Model of the SISEPUEDE command line runtime (sisepuede_cl.py): the      *)
(* selectors get_models, get_regions, get_dimensional_values and           *)
(* get_dimensional_dict, and main, which resolves the run inputs, guards   *)
(* them and delegates to the SISEPUEDE engine.                             *)
(*                                                                         *)
(* Python values are tagged records: None, IntV(n), StrV(s), ListV(xs),    *)
(* DictV(d) and BoolV(b). A string is the sequence of its characters; an   *)
(* exception raised is the record Raise(exc).                              *)
(*                                                                         *)
(* SpecFn: one call of one selector on arguments drawn from bounded sets.  *)
(* Spec: one run of main, the engine returning or raising as it may.       *)
(***************************************************************************)
EXTENDS Integers, Sequences, FiniteSets, TLC

VARIABLES
    fn_in,            \* library call: the function called and its arguments
    fn_out,           \* library call: what it returned or raised
    args,             \* main: the args dictionary
    pc,               \* main: position in the body of main
    models,           \* main: local `models`
    regions_run,      \* main: local `regions_run`
    dict_scenarios,   \* main: local `dict_scenarios`
    db_type,          \* main: local `db_type`
    engine,           \* the SISEPUEDE collaborator: the calls it has received
    log,              \* messages written through sisepuede._log
    result,           \* main: what it returned or raised
    history           \* library calls made one after another on one args
                      \* dictionary: arguments, result, dictionary before/after

vars == <<fn_in, fn_out, args, pc, models, regions_run, dict_scenarios,
          db_type, engine, log, result, history>>

main_vars == <<args, pc, models, regions_run, dict_scenarios, db_type,
               engine, log, result>>

fn_vars == <<fn_in, fn_out, history>>

-----------------------------------------------------------------------------
(* Bounds *)

\* the number of library calls made one after another on one args dictionary
MaxCalls == 3

\* most elements of a vector given to build_repeating_vec
MaxVec == 3

\* most inner and most outer repetitions of a vector
MaxRep == 2

\* most indices given to get_repeating_vec_element_inds or as keep_index
MaxInds == 2

\* the keys and values of the dictionaries given to reverse_dict are 1..MaxDict
MaxDict == 3

\* longest inline selector string given to get_dimensional_values
MaxLen == 5

\* most tokens of a models or regions string given to get_models, get_regions
MaxTokens == 3

-----------------------------------------------------------------------------
(* Python values *)

None == [tag |-> "None"]

IntV(n) == [tag |-> "int", n |-> n]

StrV(s) == [tag |-> "str", s |-> s]

ListV(xs) == [tag |-> "list", xs |-> xs]

DictV(d) == [tag |-> "dict", d |-> d]

Raise(exc) == [tag |-> "raise", exc |-> exc]

\* an exception whose message names a file and, when key is not None, a key
RaiseAbout(exc, file, key) == [tag |-> "raise", exc |-> exc, file |-> file, key |-> key]

\* a float cell of a data frame with the whole value n
FloatV(n) == [tag |-> "float", n |-> n]

\* the float cell pandas makes of a missing value
NaN == [tag |-> "nan"]

IsStr(v) == v.tag = "str"

IsRaise(v) == v.tag = "raise"

IsList(v) == v.tag = "list"

IsDict(v) == v.tag = "dict"

\* dict.get(k): the value under k, None when the key is absent
Get(d, k) == IF k \in DOMAIN d THEN d[k] ELSE None

\* dict.update({k: v})
Update(d, k, v) == [x \in (DOMAIN d) \cup {k} |-> IF x = k THEN v ELSE d[x]]

EmptyDict == [x \in {} |-> None]

-----------------------------------------------------------------------------
(* Strings *)

Digits == <<"0", "1", "2", "3", "4", "5", "6", "7", "8", "9">>

LowerCase == <<"a", "b", "c", "d", "e", "f", "g", "h", "i", "j", "k", "l", "m",
               "n", "o", "p", "q", "r", "s", "t", "u", "v", "w", "x", "y", "z">>

UpperCase == <<"A", "B", "C", "D", "E", "F", "G", "H", "I", "J", "K", "L", "M",
               "N", "O", "P", "Q", "R", "S", "T", "U", "V", "W", "X", "Y", "Z">>

IsDigit(c) == \E i \in DOMAIN Digits : Digits[i] = c

DigitVal(c) == (CHOOSE i \in DOMAIN Digits : Digits[i] = c) - 1

UpperChar(c) ==
    IF \E i \in DOMAIN LowerCase : LowerCase[i] = c
    THEN UpperCase[CHOOSE i \in DOMAIN LowerCase : LowerCase[i] = c]
    ELSE c

\* str.upper()
upper(s) == [i \in DOMAIN s |-> UpperChar(s[i])]

\* str.split(delim) for a one-character delimiter: the pieces between the
\* occurrences of delim, empty pieces kept, so that "" gives [""]
RECURSIVE split(_, _)
split(s, delim) ==
    IF \A i \in DOMAIN s : s[i] # delim
    THEN <<s>>
    ELSE LET i == CHOOSE j \in DOMAIN s :
                    /\ s[j] = delim
                    /\ \A k \in 1..(j - 1) : s[k] # delim
         IN  <<SubSeq(s, 1, i - 1)>> \o split(SubSeq(s, i + 1, Len(s)), delim)

\* the characters of the strings of this model form decimal literals only as
\* non-empty runs of digits
IsIntLiteral(s) == Len(s) > 0 /\ \A i \in DOMAIN s : IsDigit(s[i])

RECURSIVE IntOfDigits(_)
IntOfDigits(s) ==
    IF s = <<>> THEN 0
    ELSE 10 * IntOfDigits(SubSeq(s, 1, Len(s) - 1)) + DigitVal(s[Len(s)])

RECURSIVE DigitsOfInt(_)
DigitsOfInt(n) ==
    IF n < 10 THEN <<Digits[n + 1]>>
    ELSE DigitsOfInt(n \div 10) \o <<Digits[(n % 10) + 1]>>

\* return_type(x) for return_type in {int, str}: the converted value, or the
\* exception the conversion raises
Coerce(return_type, x) ==
    IF return_type = "int"
    THEN IF x.tag = "int" THEN x
         ELSE IF x.tag = "str" /\ IsIntLiteral(x.s) THEN IntV(IntOfDigits(x.s))
         ELSE IF x.tag = "str" THEN Raise("ValueError")
         ELSE IF x.tag = "float" THEN IntV(x.n)
         ELSE IF x.tag = "nan" THEN Raise("ValueError")
         ELSE Raise("TypeError")
    ELSE IF x.tag = "str" THEN x
         ELSE IF x.tag = "int" THEN StrV(DigitsOfInt(x.n))
         ELSE IF x.tag = "float" THEN StrV(DigitsOfInt(x.n) \o <<".", "0">>)
         ELSE IF x.tag = "nan" THEN StrV(<<"n", "a", "n">>)
         ELSE StrV(<<"N", "o", "n", "e">>)

\* [return_type(x) for x in xs]: the list of the converted values, or the
\* exception of the first element that fails
RECURSIVE CoerceAll(_, _)
CoerceAll(return_type, xs) ==
    IF xs = <<>> THEN ListV(<<>>)
    ELSE LET v == Coerce(return_type, Head(xs))
             rest == CoerceAll(return_type, Tail(xs))
         IN  IF IsRaise(v) THEN v
             ELSE IF IsRaise(rest) THEN rest
             ELSE ListV(<<v>> \o rest.xs)

-----------------------------------------------------------------------------
(* The file system that os.path.exists and pd.read_csv see *)

PathTable == <<"f">>

PathHeaderOnly == <<"g">>

PathOtherColumns == <<"h">>

PathUnreadable == <<"e">>

PathMixed == <<"m">>

DimKeys == {"design_id", "future_id", "primary_id", "strategy_id"}

\* the existing files: whether pd.read_csv can read the file as a table, and
\* the columns of the data frame it makes of it (column name -> cells)
Files ==
    (PathTable :>
        [readable |-> TRUE,
         columns |-> [c \in DimKeys \cup {"region"} |->
                        CASE c = "design_id" -> <<IntV(1), IntV(2)>>
                          [] c = "future_id" -> <<IntV(0), IntV(5), IntV(12)>>
                          [] c = "primary_id" -> <<IntV(10), IntV(11)>>
                          [] c = "strategy_id" -> <<IntV(3)>>
                          [] OTHER -> <<StrV(<<"b", "r", "a">>)>>]])
    @@ (PathHeaderOnly :>
        [readable |-> TRUE, columns |-> [c \in DimKeys |-> <<>>]])
    @@ (PathOtherColumns :>
        [readable |-> TRUE, columns |-> [c \in {"other"} |-> <<IntV(1)>>]])
    @@ (PathUnreadable :>
        [readable |-> FALSE, columns |-> [c \in {} |-> <<>>]])
    @@ (PathMixed :>
        [readable |-> TRUE,
         columns |-> [c \in DimKeys |->
                        CASE c = "design_id" -> <<IntV(1), IntV(2)>>
                          [] c = "future_id" ->
                                <<StrV(<<"1">>), StrV(<<"x">>), StrV(<<"2">>)>>
                          [] c = "primary_id" -> <<FloatV(1), NaN, FloatV(2)>>
                          [] OTHER -> <<StrV(<<"x">>)>>]])

\* os.path.exists(path)
path_exists(path) == path \in DOMAIN Files

\* pd.read_csv(path)
read_csv(path) == Files[path]

-----------------------------------------------------------------------------
(* get_dimensional_values *)

\* the elements of xs in the opposite order
reversed(xs) == [i \in DOMAIN xs |-> xs[Len(xs) + 1 - i]]

\* the elements of xs that return_type converts
convertible(return_type, xs) ==
    LET ok(x) == ~IsRaise(Coerce(return_type, x)) IN SelectSeq(xs, ok)

\* a variant that builds the inline list back to front
get_dimensional_values_reversed(keys_in, key, delim, return_type) ==
    IF ~IsStr(keys_in) THEN None
    ELSE IF path_exists(keys_in.s)
    THEN LET df == read_csv(keys_in.s)
         IN  IF ~df.readable THEN RaiseAbout("RuntimeError", keys_in, None)
             ELSE IF key \notin DOMAIN df.columns
             THEN RaiseAbout("RuntimeError", keys_in, StrV(key))
             ELSE CoerceAll(return_type, df.columns[key])
    ELSE LET values == CoerceAll(return_type,
                           [i \in DOMAIN split(keys_in.s, delim) |->
                               StrV(split(keys_in.s, delim)[i])])
         IN  IF IsRaise(values) THEN Raise("RuntimeError")
             ELSE ListV(reversed(values.xs))

\* a variant that leaves out the inline tokens return_type rejects
get_dimensional_values_skips_tokens(keys_in, key, delim, return_type) ==
    IF ~IsStr(keys_in) THEN None
    ELSE IF path_exists(keys_in.s)
    THEN LET df == read_csv(keys_in.s)
         IN  IF ~df.readable THEN RaiseAbout("RuntimeError", keys_in, None)
             ELSE IF key \notin DOMAIN df.columns
             THEN RaiseAbout("RuntimeError", keys_in, StrV(key))
             ELSE CoerceAll(return_type, df.columns[key])
    ELSE CoerceAll(return_type,
             convertible(return_type,
                 [i \in DOMAIN split(keys_in.s, delim) |->
                     StrV(split(keys_in.s, delim)[i])]))

\* a variant that answers the empty list for a file without the key column
get_dimensional_values_silent_column(keys_in, key, delim, return_type) ==
    IF ~IsStr(keys_in) THEN None
    ELSE IF path_exists(keys_in.s)
    THEN LET df == read_csv(keys_in.s)
         IN  IF ~df.readable THEN RaiseAbout("RuntimeError", keys_in, None)
             ELSE IF key \notin DOMAIN df.columns THEN ListV(<<>>)
             ELSE CoerceAll(return_type, df.columns[key])
    ELSE LET values == CoerceAll(return_type,
                           [i \in DOMAIN split(keys_in.s, delim) |->
                               StrV(split(keys_in.s, delim)[i])])
         IN  IF IsRaise(values) THEN Raise("RuntimeError") ELSE values

\* a variant that leaves out the cells of the file return_type rejects
get_dimensional_values_skips_cells(keys_in, key, delim, return_type) ==
    IF ~IsStr(keys_in) THEN None
    ELSE IF path_exists(keys_in.s)
    THEN LET df == read_csv(keys_in.s)
         IN  IF ~df.readable THEN RaiseAbout("RuntimeError", keys_in, None)
             ELSE IF key \notin DOMAIN df.columns
             THEN RaiseAbout("RuntimeError", keys_in, StrV(key))
             ELSE CoerceAll(return_type,
                      convertible(return_type, df.columns[key]))
    ELSE LET values == CoerceAll(return_type,
                           [i \in DOMAIN split(keys_in.s, delim) |->
                               StrV(split(keys_in.s, delim)[i])])
         IN  IF IsRaise(values) THEN Raise("RuntimeError") ELSE values

\* a variant that answers the empty list for a selector that is no string
get_dimensional_values_empty_for_absent(keys_in, key, delim, return_type) ==
    IF ~IsStr(keys_in) THEN ListV(<<>>)
    ELSE IF path_exists(keys_in.s)
    THEN LET df == read_csv(keys_in.s)
         IN  IF ~df.readable THEN RaiseAbout("RuntimeError", keys_in, None)
             ELSE IF key \notin DOMAIN df.columns
             THEN RaiseAbout("RuntimeError", keys_in, StrV(key))
             ELSE CoerceAll(return_type, df.columns[key])
    ELSE LET values == CoerceAll(return_type,
                           [i \in DOMAIN split(keys_in.s, delim) |->
                               StrV(split(keys_in.s, delim)[i])])
         IN  IF IsRaise(values) THEN Raise("RuntimeError") ELSE values

get_dimensional_values(keys_in, key, delim, return_type) ==
    IF ~IsStr(keys_in) THEN None
    ELSE IF path_exists(keys_in.s)
    THEN LET df == read_csv(keys_in.s)
         IN  IF ~df.readable THEN RaiseAbout("RuntimeError", keys_in, None)
             ELSE IF key \notin DOMAIN df.columns
             THEN RaiseAbout("RuntimeError", keys_in, StrV(key))
             ELSE CoerceAll(return_type, df.columns[key])
    ELSE LET values == CoerceAll(return_type,
                           [i \in DOMAIN split(keys_in.s, delim) |->
                               StrV(split(keys_in.s, delim)[i])])
         IN  IF IsRaise(values) THEN Raise("RuntimeError") ELSE values

-----------------------------------------------------------------------------
(* support_functions.get_dimensional_values *)

\* islistlike(x): x is a list, an array or a range
islistlike(x) == x.tag = "list"

\* isinstance(x, return_type) for return_type in {int, str}; a bool is an int
isinstance(x, return_type) ==
    IF return_type = "int" THEN x.tag \in {"int", "bool"}
    ELSE x.tag = "str"

\* a variant that reads an inline string without its last token
sf_get_dimensional_values_short(keys_in, key, delim, return_type) ==
    IF islistlike(keys_in)
    THEN LET values == CoerceAll(return_type, keys_in.xs)
         IN  IF IsRaise(values) THEN Raise("RuntimeError") ELSE values
    ELSE IF isinstance(keys_in, return_type) /\ return_type # "str"
    THEN ListV(<<keys_in>>)
    ELSE IF ~IsStr(keys_in) THEN None
    ELSE IF path_exists(keys_in.s)
    THEN LET df == read_csv(keys_in.s)
         IN  IF ~df.readable THEN RaiseAbout("RuntimeError", keys_in, None)
             ELSE IF key \notin DOMAIN df.columns
             THEN RaiseAbout("RuntimeError", keys_in, StrV(key))
             ELSE CoerceAll(return_type, df.columns[key])
    ELSE LET values == CoerceAll(return_type,
                           [i \in DOMAIN split(keys_in.s, delim) |->
                               StrV(split(keys_in.s, delim)[i])])
         IN  IF IsRaise(values) THEN Raise("RuntimeError")
             ELSE ListV(SubSeq(values.xs, 1, Len(values.xs) - 1))

sf_get_dimensional_values(keys_in, key, delim, return_type) ==
    IF islistlike(keys_in)
    THEN LET values == CoerceAll(return_type, keys_in.xs)
         IN  IF IsRaise(values) THEN Raise("RuntimeError") ELSE values
    ELSE IF isinstance(keys_in, return_type) /\ return_type # "str"
    THEN ListV(<<keys_in>>)
    ELSE IF ~IsStr(keys_in) THEN None
    ELSE IF path_exists(keys_in.s)
    THEN LET df == read_csv(keys_in.s)
         IN  IF ~df.readable THEN RaiseAbout("RuntimeError", keys_in, None)
             ELSE IF key \notin DOMAIN df.columns
             THEN RaiseAbout("RuntimeError", keys_in, StrV(key))
             ELSE CoerceAll(return_type, df.columns[key])
    ELSE LET values == CoerceAll(return_type,
                           [i \in DOMAIN split(keys_in.s, delim) |->
                               StrV(split(keys_in.s, delim)[i])])
         IN  IF IsRaise(values) THEN Raise("RuntimeError") ELSE values

-----------------------------------------------------------------------------
(* get_dimensional_dict *)

cl_key_design == "keys_design"

cl_key_future == "keys_future"

cl_key_primary == "keys_primary"

cl_key_strategy == "keys_strategy"

dim_design_id == "design_id"

dim_future_id == "future_id"

dim_primary_id == "primary_id"

dim_strategy_id == "strategy_id"

dict_key_map ==
    (cl_key_design :> dim_design_id) @@ (cl_key_future :> dim_future_id)
    @@ (cl_key_primary :> dim_primary_id) @@ (cl_key_strategy :> dim_strategy_id)

\* dict_loop with `if vals` in place of `if vals is not None`: an empty list
\* is dropped like None
RECURSIVE dict_loop_truthy(_, _, _)
dict_loop_truthy(a, ks, dict_out) ==
    IF ks = <<>> THEN DictV(dict_out)
    ELSE LET key == dict_key_map[Head(ks)]
             vals == get_dimensional_values(Get(a, Head(ks)), key, ",", "int")
         IN  IF IsRaise(vals) THEN vals
             ELSE dict_loop_truthy(a, Tail(ks),
                      IF vals # None /\ vals # ListV(<<>>)
                      THEN Update(dict_out, key, vals)
                      ELSE dict_out)

\* dict_loop with the exception of a selector caught and the key left out
RECURSIVE dict_loop_swallows(_, _, _)
dict_loop_swallows(a, ks, dict_out) ==
    IF ks = <<>> THEN DictV(dict_out)
    ELSE LET key == dict_key_map[Head(ks)]
             vals == get_dimensional_values(Get(a, Head(ks)), key, ",", "int")
         IN  dict_loop_swallows(a, Tail(ks),
                 IF vals # None /\ ~IsRaise(vals)
                 THEN Update(dict_out, key, vals)
                 ELSE dict_out)

\* a variant of the loop that ends at the first key without a selector
RECURSIVE dict_loop_stops(_, _, _)
dict_loop_stops(a, ks, dict_out) ==
    IF ks = <<>> THEN DictV(dict_out)
    ELSE LET key == dict_key_map[Head(ks)]
             vals == get_dimensional_values(Get(a, Head(ks)), key, ",", "int")
         IN  IF IsRaise(vals) THEN vals
             ELSE IF vals = None THEN DictV(dict_out)
             ELSE dict_loop_stops(a, Tail(ks), Update(dict_out, key, vals))

\* the loop over the command line keys ks, from the dictionary dict_out: the
\* dictionary after the loop, or the exception that ended it
RECURSIVE dict_loop(_, _, _)
dict_loop(a, ks, dict_out) ==
    IF ks = <<>> THEN DictV(dict_out)
    ELSE LET key == dict_key_map[Head(ks)]
             vals == get_dimensional_values(Get(a, Head(ks)), key, ",", "int")
         IN  IF IsRaise(vals) THEN vals
             ELSE dict_loop(a, Tail(ks),
                            IF vals # None THEN Update(dict_out, key, vals)
                            ELSE dict_out)

\* get_dimensional_dict without the precedence of keys_primary: the three
\* other keys are read as well
get_dimensional_dict_no_precedence(a) ==
    IF ~IsDict(a) THEN None
    ELSE LET filled == dict_loop(a.d, <<cl_key_primary, cl_key_design,
                                        cl_key_future, cl_key_strategy>>,
                                 EmptyDict)
         IN  IF IsRaise(filled) THEN filled
             ELSE IF Cardinality(DOMAIN filled.d) = 0 THEN None
             ELSE filled

\* get_dimensional_dict returning dict_out as it is, also when it is empty
get_dimensional_dict_keeps_empty(a) ==
    IF ~IsDict(a) THEN None
    ELSE IF Get(a.d, cl_key_primary) # None
    THEN dict_loop(a.d, <<cl_key_primary>>, EmptyDict)
    ELSE dict_loop(a.d, <<cl_key_design, cl_key_future, cl_key_strategy>>,
                   EmptyDict)

get_dimensional_dict(a) ==
    IF ~IsDict(a) THEN None
    ELSE LET filled ==
                 IF Get(a.d, cl_key_primary) # None
                 THEN dict_loop(a.d, <<cl_key_primary>>, EmptyDict)
                 ELSE dict_loop(a.d, <<cl_key_design, cl_key_future,
                                       cl_key_strategy>>, EmptyDict)
         IN  IF IsRaise(filled) THEN filled
             ELSE IF Cardinality(DOMAIN filled.d) = 0 THEN None
             ELSE filled

-----------------------------------------------------------------------------
(* get_models *)

\* attr_subsector.key_values + list(attr_subsector.table["sector"]): the
\* sector abbreviations and the sector names of the attribute table
valid_models ==
    << <<"a", "f">>, <<"c", "e">>, <<"e", "n">>, <<"i", "p">>,
       <<"A", "F", "O", "L", "U">>,
       <<"C", "i", "r", "c", "u", "l", "a", "r", " ", "E", "c", "o", "n", "o",
         "m", "y">>,
       <<"E", "n", "e", "r", "g", "y">>,
       <<"I", "P", "P", "U">> >>

\* a variant that compares with "ALL" as written
get_models_exact_case(models_arg, delim) ==
    IF ~IsStr(models_arg) THEN None
    ELSE IF models_arg.s = <<"A", "L", "L">> THEN None
    ELSE LET in_valid(x) == \E i \in DOMAIN valid_models : valid_models[i] = x
             kept == SelectSeq(split(models_arg.s, delim), in_valid)
         IN  ListV([i \in DOMAIN kept |-> StrV(kept[i])])

get_models(models_arg, delim) ==
    IF ~IsStr(models_arg) THEN None
    ELSE IF upper(models_arg.s) = <<"A", "L", "L">> THEN None
    ELSE LET in_valid(x) == \E i \in DOMAIN valid_models : valid_models[i] = x
             kept == SelectSeq(split(models_arg.s, delim), in_valid)
         IN  ListV([i \in DOMAIN kept |-> StrV(kept[i])])

-----------------------------------------------------------------------------
(* get_regions *)

\* regions_obj.key
regions_key == "region"

\* the region registry: region name and ISO code of each region
region_registry ==
    << [region |-> <<"b", "r", "a", "z", "i", "l">>, iso |-> <<"b", "r", "a">>],
       [region |-> <<"c", "h", "i", "l", "e">>, iso |-> <<"c", "h", "l">>] >>

\* regions_obj.return_region_or_iso(x, return_type = "region"): the region
\* name of a region name or ISO code, None for any other value
return_region_or_iso(x) ==
    IF IsStr(x) /\ \E i \in DOMAIN region_registry :
                      x.s \in {region_registry[i].region, region_registry[i].iso}
    THEN StrV(region_registry[CHOOSE i \in DOMAIN region_registry :
                 x.s \in {region_registry[i].region, region_registry[i].iso}].region)
    ELSE None

ALLREGIONS == <<"A", "L", "L", "R", "E", "G", "I", "O", "N", "S">>

\* the elements of xs, each kept at its first occurrence only
RECURSIVE unique(_)
unique(xs) ==
    IF xs = <<>> THEN <<>>
    ELSE LET front == SubSeq(xs, 1, Len(xs) - 1)
             last == xs[Len(xs)]
         IN  IF \E i \in DOMAIN front : front[i] = last
             THEN unique(front)
             ELSE unique(front) \o <<last>>

\* a variant that returns each region once
get_regions_unique(region_args, delim) ==
    IF ~IsStr(region_args) THEN ListV(<<>>)
    ELSE IF region_args.s = ALLREGIONS THEN None
    ELSE LET regions == get_dimensional_values(region_args, regions_key,
                                               delim, "str")
         IN  IF IsRaise(regions) THEN regions
             ELSE LET looked == [i \in DOMAIN regions.xs |->
                                    return_region_or_iso(regions.xs[i])]
                      is_region(x) == x # None
                  IN  ListV(unique(SelectSeq(looked, is_region)))

\* a variant that compares with the sentinel ignoring case
get_regions_any_case(region_args, delim) ==
    IF ~IsStr(region_args) THEN ListV(<<>>)
    ELSE IF upper(region_args.s) = ALLREGIONS THEN None
    ELSE LET regions == get_dimensional_values(region_args, regions_key,
                                               delim, "str")
         IN  IF IsRaise(regions) THEN regions
             ELSE LET looked == [i \in DOMAIN regions.xs |->
                                    return_region_or_iso(regions.xs[i])]
                      is_region(x) == x # None
                  IN  ListV(SelectSeq(looked, is_region))

get_regions(region_args, delim) ==
    IF ~IsStr(region_args) THEN ListV(<<>>)
    ELSE IF region_args.s = ALLREGIONS THEN None
    ELSE LET regions == get_dimensional_values(region_args, regions_key,
                                               delim, "str")
         IN  IF IsRaise(regions) THEN regions
             ELSE LET looked == [i \in DOMAIN regions.xs |->
                                    return_region_or_iso(regions.xs[i])]
                      is_region(x) == x # None
                  IN  ListV(SelectSeq(looked, is_region))

-----------------------------------------------------------------------------
(* Inputs *)

Chars == {"1", "2", "3", ",", "x"}

\* the strings over Chars of length at most n
StringsUpTo(n) == UNION {[1..k -> Chars] : k \in 0..n}

S_empty == <<>>

S_12 == <<"1", ",", "2">>

S_2 == <<"2">>

S_x == <<"x">>

S_1x == <<"1", ",", "x">>

S_112 == <<"1", ",", "1", ",", "2">>

\* a value that is not a string and not None
NonString == IntV(7)

\* what one dimension argument is drawn from in a call of get_dimensional_dict
DimInputs ==
    {None, NonString, StrV(S_empty), StrV(S_12), StrV(S_2), StrV(S_x),
     StrV(S_1x), StrV(PathTable), StrV(PathHeaderOnly), StrV(PathOtherColumns),
     StrV(PathMixed), StrV(S_112)}

\* what one dimension argument is drawn from in a run of main
MainDimInputs == {None, NonString, StrV(S_12), StrV(S_x)}

S_All == <<"A", "l", "l">>

S_af_zz == <<"a", "f", ",", "z", "z">>

S_zz == <<"z", "z">>

S_AFOLU_bogus == <<"A", "F", "O", "L", "U", ",", "b", "o", "g", "u", "s">>

ModelInputs == {None, StrV(S_All), StrV(S_af_zz), StrV(S_zz)}

S_bra == <<"b", "r", "a">>

S_xx == <<"x", "x">>

S_bra_xx_chl == <<"b", "r", "a", ",", "x", "x", ",", "c", "h", "l">>

RegionInputs ==
    {None, StrV(ALLREGIONS), StrV(S_bra), StrV(S_xx), StrV(S_bra_xx_chl)}

S_sqlite == <<"s", "q", "l", "i", "t", "e">>

S_csv == <<"c", "s", "v">>

S_xml == <<"x", "m", "l">>

DatabaseTypeInputs == {None, StrV(S_sqlite), StrV(S_csv), StrV(S_xml)}

S_run == <<"r", "u", "n">>

IdInputs == {None, StrV(S_run)}

BoolV(b) == [tag |-> "bool", b |-> b]

\* the args dictionaries main is run with: every key parse_arguments sets
MainArgs ==
    {DictV([models |-> m, regions |-> r, keys_design |-> kd, keys_future |-> kf,
            keys_primary |-> kp, keys_strategy |-> ks, database_type |-> db,
            id |-> id, exclude_fuel_production |-> BoolV(FALSE),
            max_solve_attempts |-> IntV(2), n_trials |-> IntV(1),
            random_seed |-> None, save_inputs |-> BoolV(FALSE)]) :
        m \in ModelInputs, r \in RegionInputs, kd \in MainDimInputs,
        kf \in MainDimInputs, kp \in MainDimInputs, ks \in MainDimInputs,
        db \in DatabaseTypeInputs, id \in IdInputs}

\* delim.join(ts)
RECURSIVE Join(_, _)
Join(ts, delim) ==
    IF ts = <<>> THEN <<>>
    ELSE IF Len(ts) = 1 THEN ts[1]
    ELSE ts[1] \o <<delim>> \o Join(Tail(ts), delim)

\* the sequences of 1 to n elements of S
SeqsUpTo(S, n) == UNION {[1..k -> S] : k \in 1..n}

S_AFOLU == <<"A", "F", "O", "L", "U">>

S_af == <<"a", "f">>

S_bogus == <<"b", "o", "g", "u", "s">>

S_aLL == <<"a", "L", "L">>

S_all == <<"a", "l", "l">>

\* the tokens the models strings are made of
ModelTokens == {S_af, S_AFOLU, S_bogus, S_All, S_aLL, S_empty}

S_chl == <<"c", "h", "l">>

S_brazil == <<"b", "r", "a", "z", "i", "l">>

S_allregions == <<"a", "l", "l", "r", "e", "g", "i", "o", "n", "s">>

\* the tokens the regions strings are made of
RegionTokens == {S_bra, S_chl, S_brazil, S_xx, S_empty, ALLREGIONS, S_allregions}

\* the string selectors given to both versions of get_dimensional_values
StringSelectors ==
    {StrV(PathTable), StrV(PathHeaderOnly), StrV(PathOtherColumns),
     StrV(PathUnreadable), StrV(PathMixed), StrV(S_All), StrV(S_all)}
    \cup {StrV(s) : s \in StringsUpTo(MaxLen)}

\* selectors that are no strings: None, numbers, a bool, and lists of
\* numbers, of numerals, with an element that is no number, and without elements
NonStringSelectors ==
    {None, NonString, FloatV(2), BoolV(TRUE),
     ListV(<<IntV(1), IntV(2)>>), ListV(<<StrV(<<"1">>), StrV(<<"2">>)>>),
     ListV(<<IntV(1), StrV(<<"x">>)>>), ListV(<<>>)}

\* the arguments of the calls of support_functions.get_dimensional_values
SfInputs ==
    {[fn |-> "sf.get_dimensional_values", keys_in |-> k, key |-> key,
      delim |-> ",", return_type |-> "int"] :
        k \in StringSelectors, key \in DimKeys}
    \cup
    {[fn |-> "sf.get_dimensional_values", keys_in |-> k, key |-> "future_id",
      delim |-> ",", return_type |-> rt] :
        k \in NonStringSelectors
              \cup {StrV(PathTable), StrV(PathMixed), StrV(S_12), StrV(S_1x),
                    StrV(S_empty)},
        rt \in {"int", "str"}}

\* the arguments of the calls of get_dimensional_values of sisepuede_cl
ValuesInputs ==
    {[fn |-> "get_dimensional_values", keys_in |-> k, key |-> key,
      delim |-> ",", return_type |-> "int"] :
        k \in {None, NonString, StrV(PathTable), StrV(PathHeaderOnly),
               StrV(PathOtherColumns), StrV(PathUnreadable), StrV(PathMixed),
               StrV(S_All), StrV(S_all)}
              \cup {StrV(s) : s \in StringsUpTo(MaxLen)},
        key \in DimKeys}
    \cup
    {[fn |-> "get_dimensional_values", keys_in |-> k, key |-> "future_id",
      delim |-> ",", return_type |-> "str"] :
        k \in {StrV(PathTable), StrV(PathMixed), StrV(S_12), StrV(S_1x),
               StrV(S_empty)}}

\* the arguments of the calls of get_dimensional_dict
DictInputs ==
    {[fn |-> "get_dimensional_dict",
      args |-> DictV([keys_design |-> kd, keys_future |-> kf,
                      keys_primary |-> kp, keys_strategy |-> ks])] :
        kd \in DimInputs, kf \in DimInputs, kp \in DimInputs, ks \in DimInputs}
    \cup
    {[fn |-> "get_dimensional_dict", args |-> a] : a \in {None, NonString}}

\* the arguments of the calls of get_models
ModelsInputs ==
    {[fn |-> "get_models", models |-> StrV(Join(ts, ",")), delim |-> ",",
      tokens |-> ts] : ts \in SeqsUpTo(ModelTokens, MaxTokens)}
    \cup
    {[fn |-> "get_models", models |-> m, delim |-> ",", tokens |-> <<>>] :
        m \in {None, NonString}}

\* the arguments of the calls of get_regions
RegionsInputs ==
    {[fn |-> "get_regions", region_args |-> StrV(Join(ts, ",")), delim |-> ",",
      tokens |-> ts] : ts \in SeqsUpTo(RegionTokens, MaxTokens)}
    \cup
    {[fn |-> "get_regions", region_args |-> StrV(f), delim |-> ",",
      tokens |-> <<f>>] : f \in {PathTable, PathHeaderOnly, PathUnreadable}}
    \cup
    {[fn |-> "get_regions", region_args |-> r, delim |-> ",", tokens |-> <<>>] :
        r \in {None, NonString}}

\* the arguments of the library calls; `tokens` records the tokens a models
\* or regions string was joined from
FnInputs ==
    SfInputs \cup (ValuesInputs \cup (DictInputs \cup (ModelsInputs \cup RegionsInputs)))

-----------------------------------------------------------------------------
(* Library calls: one call of one function on the arguments drawn *)

Pending == [tag |-> "pending"]

\* a local of main before its assignment
Unbound == [tag |-> "unbound"]

NoCall == [fn |-> "none"]

MainIdle ==
    /\ args = None
    /\ pc = "idle"
    /\ models = Unbound
    /\ regions_run = Unbound
    /\ dict_scenarios = Unbound
    /\ db_type = Unbound
    /\ engine = [ctor_calls |-> <<>>, run_calls |-> <<>>, id |-> None, exc |-> None]
    /\ log = <<>>
    /\ result = Pending

InitFn ==
    /\ fn_in \in FnInputs
    /\ fn_out = Pending
    /\ history = <<>>
    /\ MainIdle

Call_get_dimensional_values ==
    /\ fn_in.fn = "get_dimensional_values"
    /\ fn_out = Pending
    /\ fn_out' = get_dimensional_values(fn_in.keys_in, fn_in.key, fn_in.delim,
                                        fn_in.return_type)
    /\ UNCHANGED <<fn_in, history, main_vars>>

Call_sf_get_dimensional_values ==
    /\ fn_in.fn = "sf.get_dimensional_values"
    /\ fn_out = Pending
    /\ fn_out' = sf_get_dimensional_values(fn_in.keys_in, fn_in.key,
                                           fn_in.delim, fn_in.return_type)
    /\ UNCHANGED <<fn_in, history, main_vars>>

Call_get_dimensional_dict ==
    /\ fn_in.fn = "get_dimensional_dict"
    /\ fn_out = Pending
    /\ fn_out' = get_dimensional_dict(fn_in.args)
    /\ UNCHANGED <<fn_in, history, main_vars>>

Call_get_models ==
    /\ fn_in.fn = "get_models"
    /\ fn_out = Pending
    /\ fn_out' = get_models(fn_in.models, fn_in.delim)
    /\ UNCHANGED <<fn_in, history, main_vars>>

Call_get_regions ==
    /\ fn_in.fn = "get_regions"
    /\ fn_out = Pending
    /\ fn_out' = get_regions(fn_in.region_args, fn_in.delim)
    /\ UNCHANGED <<fn_in, history, main_vars>>

NextFn ==
    \/ Call_get_dimensional_values
    \/ Call_sf_get_dimensional_values
    \/ Call_get_dimensional_dict
    \/ Call_get_models
    \/ Call_get_regions

SpecFn == InitFn /\ [][NextFn]_vars

-----------------------------------------------------------------------------
(* main *)

\* the exceptions the SISEPUEDE engine may raise
EngineErrors == {"EngineError", "SolverError"}

\* sisepuede.id when no id_str is given: the identifier set at runtime
S_generated == <<"a", "u", "t", "o">>

Returned(v) == [tag |-> "return", v |-> v]

Init ==
    /\ fn_in = NoCall
    /\ fn_out = Pending
    /\ history = <<>>
    /\ args \in MainArgs
    /\ pc = "start"
    /\ models = Unbound
    /\ regions_run = Unbound
    /\ dict_scenarios = Unbound
    /\ db_type = Unbound
    /\ engine = [ctor_calls |-> <<>>, run_calls |-> <<>>, id |-> None, exc |-> None]
    /\ log = <<>>
    /\ result = Pending

\* 1. GET INPUTS: models, regions and the scenario dictionary, in this order;
\* an exception of one of them ends main before the next is computed
GetInputs ==
    /\ pc = "start"
    /\ LET m == get_models(Get(args.d, "models"), ",")
           r == get_regions(Get(args.d, "regions"), ",")
           d == get_dimensional_dict(args)
       IN  /\ models' = m
           /\ regions_run' = IF IsRaise(r) THEN regions_run ELSE r
           /\ dict_scenarios' = IF IsRaise(r) \/ IsRaise(d) THEN dict_scenarios
                                ELSE d
           /\ pc' = IF IsRaise(r) \/ IsRaise(d) THEN "aborted" ELSE "resolved"
           /\ result' = IF IsRaise(r) THEN r
                        ELSE IF IsRaise(d) THEN d
                        ELSE result
    /\ UNCHANGED <<fn_vars, args, db_type, engine, log>>

\* ResolverGate without the raise: a None dict_scenarios goes on to the checks
ResolverGate_passes_none ==
    /\ pc = "resolved"
    /\ pc' = "gated"
    /\ UNCHANGED <<fn_vars, args, models, regions_run, dict_scenarios, db_type,
                   engine, log, result>>

\* if dict_scenarios is None: raise RuntimeError
ResolverGate ==
    /\ pc = "resolved"
    /\ pc' = IF dict_scenarios = None THEN "aborted" ELSE "gated"
    /\ result' = IF dict_scenarios = None THEN Raise("RuntimeError") ELSE result
    /\ UNCHANGED <<fn_vars, args, models, regions_run, dict_scenarios, db_type,
                   engine, log>>

\* len(dict_scenarios)
dict_len(d) == IF IsDict(d) THEN IntV(Cardinality(DOMAIN d.d)) ELSE Raise("TypeError")

\* the additional parameters and the checks: return_none, or the exception
\* its computation raises
return_none(regions, scenarios) ==
    IF regions = None THEN BoolV(TRUE)
    ELSE IF IsRaise(dict_len(scenarios)) THEN dict_len(scenarios)
    ELSE BoolV(dict_len(scenarios).n = 0 \/ scenarios = None)

\* DispatchGuard computing return_none and not acting on it
DispatchGuard_no_raise ==
    /\ pc = "gated"
    /\ db_type' = IF Get(args.d, "database_type") \notin {StrV(S_sqlite), StrV(S_csv)}
                  THEN StrV(S_sqlite)
                  ELSE Get(args.d, "database_type")
    /\ pc' = "validated"
    /\ UNCHANGED <<fn_vars, args, models, regions_run, dict_scenarios, engine,
                   log, result>>

\* DispatchGuard taking the database type as it was given
DispatchGuard_db_type_as_given ==
    /\ pc = "gated"
    /\ db_type' = Get(args.d, "database_type")
    /\ LET rn == return_none(regions_run, dict_scenarios)
       IN  /\ pc' = IF rn = BoolV(FALSE) THEN "validated" ELSE "aborted"
           /\ result' = IF IsRaise(rn) THEN rn
                        ELSE IF rn = BoolV(TRUE) THEN Raise("RuntimeError")
                        ELSE result
    /\ UNCHANGED <<fn_vars, args, models, regions_run, dict_scenarios, engine, log>>

DispatchGuard ==
    /\ pc = "gated"
    /\ db_type' = IF Get(args.d, "database_type") \notin {StrV(S_sqlite), StrV(S_csv)}
                  THEN StrV(S_sqlite)
                  ELSE Get(args.d, "database_type")
    /\ LET rn == return_none(regions_run, dict_scenarios)
       IN  /\ pc' = IF rn = BoolV(FALSE) THEN "validated" ELSE "aborted"
           /\ result' = IF IsRaise(rn) THEN rn
                        ELSE IF rn = BoolV(TRUE) THEN Raise("RuntimeError")
                        ELSE result
    /\ UNCHANGED <<fn_vars, args, models, regions_run, dict_scenarios, engine, log>>

\* the keyword arguments of ssp.SISEPUEDE("calibrated", ...)
ctor_request ==
    [mode |-> "calibrated",
     db_type |-> db_type,
     id_str |-> Get(args.d, "id"),
     n_trials |-> Get(args.d, "n_trials"),
     random_seed |-> Get(args.d, "random_seed"),
     regions |-> regions_run]

\* a variant of the run call that hands over the ids written as text
run_request_ids_as_text ==
    [dict_scenarios |->
         DictV([k \in DOMAIN dict_scenarios.d |->
                   CoerceAll("str", dict_scenarios.d[k].xs)]),
     chunk_size |-> IntV(2),
     check_results |-> BoolV(TRUE),
     include_electricity_in_energy |->
         BoolV(~Get(args.d, "exclude_fuel_production").b),
     max_attempts |-> Get(args.d, "max_solve_attempts"),
     reinitialize_output_table_on_verification_failure |-> BoolV(TRUE),
     save_inputs |-> Get(args.d, "save_inputs")]

\* the arguments of sisepuede(dict_scenarios, ...)
run_request ==
    [dict_scenarios |-> dict_scenarios,
     chunk_size |-> IntV(2),
     check_results |-> BoolV(TRUE),
     include_electricity_in_energy |->
         BoolV(~Get(args.d, "exclude_fuel_production").b),
     max_attempts |-> Get(args.d, "max_solve_attempts"),
     reinitialize_output_table_on_verification_failure |-> BoolV(TRUE),
     save_inputs |-> Get(args.d, "save_inputs")]

\* sisepuede = ssp.SISEPUEDE(...): the constructor is entered
EngineConstruct ==
    /\ pc = "validated"
    /\ pc' = "constructing"
    /\ engine' = [engine EXCEPT !.ctor_calls = Append(@, ctor_request)]
    /\ UNCHANGED <<fn_vars, args, models, regions_run, dict_scenarios, db_type,
                   log, result>>

EngineConstructReturns ==
    /\ pc = "constructing"
    /\ pc' = "constructed"
    /\ engine' = [engine EXCEPT !.id =
                     IF engine.ctor_calls[1].id_str = None THEN StrV(S_generated)
                     ELSE engine.ctor_calls[1].id_str]
    /\ UNCHANGED <<fn_vars, args, models, regions_run, dict_scenarios, db_type,
                   log, result>>

EngineConstructRaises ==
    /\ pc = "constructing"
    /\ \E e \in EngineErrors :
          /\ engine' = [engine EXCEPT !.exc = e]
          /\ result' = Raise(e)
    /\ pc' = "failed"
    /\ UNCHANGED <<fn_vars, args, models, regions_run, dict_scenarios, db_type, log>>

\* dict_primaries_complete = sisepuede(dict_scenarios, ...): the call is made
EngineCall ==
    /\ pc = "constructed"
    /\ pc' = "running"
    /\ engine' = [engine EXCEPT !.run_calls = Append(@, run_request)]
    /\ UNCHANGED <<fn_vars, args, models, regions_run, dict_scenarios, db_type,
                   log, result>>

EngineReturns ==
    /\ pc = "running"
    /\ pc' = "returned"
    /\ UNCHANGED <<fn_vars, args, models, regions_run, dict_scenarios, db_type,
                   engine, log, result>>

\* EngineRaises with the engine's exception caught and a RuntimeError raised
\* in its place
EngineRaises_wraps ==
    /\ pc = "running"
    /\ \E e \in EngineErrors :
          /\ engine' = [engine EXCEPT !.exc = e]
          /\ result' = Raise("RuntimeError")
    /\ pc' = "failed"
    /\ UNCHANGED <<fn_vars, args, models, regions_run, dict_scenarios, db_type, log>>

EngineRaises ==
    /\ pc = "running"
    /\ \E e \in EngineErrors :
          /\ engine' = [engine EXCEPT !.exc = e]
          /\ result' = Raise(e)
    /\ pc' = "failed"
    /\ UNCHANGED <<fn_vars, args, models, regions_run, dict_scenarios, db_type, log>>

\* LogComplete writing the id of the arguments in place of sisepuede.id
LogComplete_arg_id ==
    /\ pc = "returned"
    /\ pc' = "logged"
    /\ log' = Append(log, [msg |-> "complete", id |-> Get(args.d, "id"),
                           type_log |-> "info"])
    /\ UNCHANGED <<fn_vars, args, models, regions_run, dict_scenarios, db_type,
                   engine, result>>

\* sisepuede._log(f"SISEPUEDE run '{sisepuede.id}' complete.", type_log = "info")
LogComplete ==
    /\ pc = "returned"
    /\ pc' = "logged"
    /\ log' = Append(log, [msg |-> "complete", id |-> engine.id, type_log |-> "info"])
    /\ UNCHANGED <<fn_vars, args, models, regions_run, dict_scenarios, db_type,
                   engine, result>>

\* return 0
Return ==
    /\ pc = "logged"
    /\ pc' = "done"
    /\ result' = Returned(IntV(0))
    /\ UNCHANGED <<fn_vars, args, models, regions_run, dict_scenarios, db_type,
                   engine, log>>

Next ==
    \/ GetInputs
    \/ ResolverGate
    \/ DispatchGuard
    \/ EngineConstruct
    \/ EngineConstructReturns
    \/ EngineConstructRaises
    \/ EngineCall
    \/ EngineReturns
    \/ EngineRaises
    \/ LogComplete
    \/ Return

Spec == Init /\ [][Next]_vars

-----------------------------------------------------------------------------
(* Library calls one after another on one args dictionary *)

\* the args dictionaries the calls are made on
SeqArgs ==
    {DictV([models |-> m, regions |-> r, keys_design |-> kd, keys_future |-> kf,
            keys_primary |-> kp, keys_strategy |-> ks]) :
        m \in {None, StrV(S_af_zz)}, r \in {StrV(S_bra_xx_chl), StrV(PathHeaderOnly)},
        kd \in {None, StrV(S_12), StrV(S_x)}, kf \in {None, StrV(PathTable)},
        kp \in {None, StrV(S_2)}, ks \in {None, StrV(S_112)}}

InitSeq ==
    /\ fn_in = NoCall
    /\ fn_out = Pending
    /\ history = <<>>
    /\ args \in SeqArgs
    /\ pc = "idle"
    /\ models = Unbound
    /\ regions_run = Unbound
    /\ dict_scenarios = Unbound
    /\ db_type = Unbound
    /\ engine = [ctor_calls |-> <<>>, run_calls |-> <<>>, id |-> None, exc |-> None]
    /\ log = <<>>
    /\ result = Pending

\* one finished call: the function, the argument values it was given, what it
\* returned or raised, and the args dictionary before and after it
Called(fn, in, out, before, after) ==
    [fn |-> fn, in |-> in, out |-> out, before |-> before, after |-> after]

\* dict.pop(k, None) on the dictionary d: d without the key k
Pop(d, k) == [x \in (DOMAIN d) \ {k} |-> d[x]]

\* get_models(args.get("models"), ...): the function reads its parameters and
\* rebinds its local `models` only
Seq_get_models ==
    /\ Len(history) < MaxCalls
    /\ LET in == <<Get(args.d, "models"), StrV(<<",">>)>>
       IN  /\ args' = args
           /\ history' = Append(history,
                   Called("get_models", in, get_models(in[1], ","), args, args'))
    /\ UNCHANGED <<fn_in, fn_out, pc, models, regions_run, dict_scenarios,
                   db_type, engine, log, result>>

\* get_regions(args.get("regions"), ...)
Seq_get_regions ==
    /\ Len(history) < MaxCalls
    /\ LET in == <<Get(args.d, "regions"), StrV(<<",">>)>>
       IN  /\ args' = args
           /\ history' = Append(history,
                   Called("get_regions", in, get_regions(in[1], ","), args, args'))
    /\ UNCHANGED <<fn_in, fn_out, pc, models, regions_run, dict_scenarios,
                   db_type, engine, log, result>>

\* get_dimensional_values(args.get(k), key) for one of the selectors
Seq_get_dimensional_values ==
    /\ Len(history) < MaxCalls
    /\ \E k \in DOMAIN dict_key_map :
          LET in == <<Get(args.d, k), StrV(dict_key_map[k])>>
          IN  /\ args' = args
              /\ history' = Append(history,
                      Called("get_dimensional_values", in,
                             get_dimensional_values(in[1], dict_key_map[k], ",", "int"),
                             args, args'))
    /\ UNCHANGED <<fn_in, fn_out, pc, models, regions_run, dict_scenarios,
                   db_type, engine, log, result>>

\* a variant of get_dimensional_dict that takes the selectors out of args
\* (args.pop(k, None) in place of args.get(k))
Seq_get_dimensional_dict_pops ==
    /\ Len(history) < MaxCalls
    /\ args' = DictV(Pop(Pop(Pop(Pop(args.d, cl_key_primary), cl_key_design),
                              cl_key_future), cl_key_strategy))
    /\ history' = Append(history,
            Called("get_dimensional_dict", <<args>>, get_dimensional_dict(args),
                   args, args'))
    /\ UNCHANGED <<fn_in, fn_out, pc, models, regions_run, dict_scenarios,
                   db_type, engine, log, result>>

\* get_dimensional_dict(args, ...): args is read through args.get only; the
\* dictionary that is updated is the local dict_out
Seq_get_dimensional_dict ==
    /\ Len(history) < MaxCalls
    /\ args' = args
    /\ history' = Append(history,
            Called("get_dimensional_dict", <<args>>, get_dimensional_dict(args),
                   args, args'))
    /\ UNCHANGED <<fn_in, fn_out, pc, models, regions_run, dict_scenarios,
                   db_type, engine, log, result>>

NextSeq ==
    \/ Seq_get_models
    \/ Seq_get_regions
    \/ Seq_get_dimensional_values
    \/ Seq_get_dimensional_dict

SpecSeq == InitSeq /\ [][NextSeq]_vars

-----------------------------------------------------------------------------
(* support_functions: arrays *)

\* a one-dimensional np.ndarray of integers
ArrayV(xs) == [tag |-> "array", xs |-> xs]

\* np.repeat(vec, k): every element k times in a row
np_repeat(vec, k) == [i \in 1..(Len(vec) * k) |-> vec[((i - 1) \div k) + 1]]

\* np.repeat(np.array([row]), k, axis = 0): the matrix of k rows equal to row
np_repeat_rows(row, k) == [r \in 1..k |-> row]

\* M.transpose() for a matrix of rows of one length
np_transpose(M) ==
    IF M = <<>> THEN <<>>
    ELSE [c \in 1..Len(M[1]) |-> [r \in 1..Len(M) |-> M[r][c]]]

\* M.flatten(): the rows one after another
RECURSIVE np_flatten(_)
np_flatten(M) == IF M = <<>> THEN <<>> ELSE Head(M) \o np_flatten(Tail(M))

\* np.arange(k)
np_arange(k) == [i \in 1..k |-> i - 1]

\* vec[inds] for a list of indices: index i counts from 0, a negative index
\* from the end; IndexError for an index outside the vector
np_take(vec, inds) ==
    IF \E j \in DOMAIN inds : inds[j] >= Len(vec) \/ inds[j] < 0 - Len(vec)
    THEN Raise("IndexError")
    ELSE ArrayV([j \in DOMAIN inds |->
                    IF inds[j] >= 0 THEN vec[inds[j] + 1]
                    ELSE vec[Len(vec) + inds[j] + 1]])

build_repeating_vec(vec, n_repetitions_inner, n_repetitions_outer, keep_index) ==
    LET vec_inner == np_repeat(vec, n_repetitions_inner)
        vec_outer == np_flatten(np_repeat_rows(vec_inner, n_repetitions_outer))
    IN  IF keep_index # None
        THEN LET below(x) == x < Len(vec_outer)
             IN  np_take(vec_outer, SelectSeq(keep_index.xs, below))
        ELSE ArrayV(vec_outer)

\* a variant that steps from one cycle to the next by n_elements
get_repeating_vec_element_inds_short_cycle(inds_in, n_elements, n_repetitions_inner, n_repetitions_outer) ==
    LET below(x) == x < n_elements
        inds == SelectSeq(inds_in, below)
        rows == np_transpose(np_repeat_rows(inds, n_repetitions_inner))
        inds_inner == np_flatten([a \in DOMAIN rows |->
                          [b \in DOMAIN rows[a] |->
                              rows[a][b] * n_repetitions_inner
                                  + np_arange(n_repetitions_inner)[b]]])
        n_inner == n_elements
        cols == np_transpose(np_repeat_rows(inds_inner, n_repetitions_outer))
        shifted == [q \in DOMAIN cols |->
                       [o \in DOMAIN cols[q] |->
                           cols[q][o] + np_arange(n_repetitions_outer)[o] * n_inner]]
    IN  ArrayV(np_flatten(np_transpose(shifted)))

get_repeating_vec_element_inds(inds_in, n_elements, n_repetitions_inner, n_repetitions_outer) ==
    LET below(x) == x < n_elements
        inds == SelectSeq(inds_in, below)
        \* inds_inner: one row per index, the row of index x being
        \* x * n_repetitions_inner + np.arange(n_repetitions_inner)
        rows == np_transpose(np_repeat_rows(inds, n_repetitions_inner))
        inds_inner == np_flatten([a \in DOMAIN rows |->
                          [b \in DOMAIN rows[a] |->
                              rows[a][b] * n_repetitions_inner
                                  + np_arange(n_repetitions_inner)[b]]])
        n_inner == n_repetitions_inner * n_elements
        \* inds_ext: one column per cycle, shifted by the cycle's offset
        cols == np_transpose(np_repeat_rows(inds_inner, n_repetitions_outer))
        shifted == [q \in DOMAIN cols |->
                       [o \in DOMAIN cols[q] |->
                           cols[q][o] + np_arange(n_repetitions_outer)[o] * n_inner]]
    IN  ArrayV(np_flatten(np_transpose(shifted)))

\* the vector of n different values that is repeated
VecOf(n) == [i \in 1..n |-> 10 * i]

\* the lists of at most MaxInds indices from lo to hi
IndexLists(lo, hi) == UNION {[1..k -> lo..hi] : k \in 0..MaxInds}

\* the calls of the array functions: the indices run from -n, the first
\* element counted from the end, to n, the first index beyond the vector
SfArrayInputs ==
    {[fn |-> "build_repeating_vec", vec |-> VecOf(n),
      n_repetitions_inner |-> ni, n_repetitions_outer |-> no,
      keep_index |-> None] :
        n \in 0..MaxVec, ni \in 1..MaxRep, no \in 1..MaxRep}
    \cup
    {[fn |-> "build_repeating_vec", vec |-> VecOf(MaxVec),
      n_repetitions_inner |-> ni, n_repetitions_outer |-> no,
      keep_index |-> ListV(ks)] :
        ni \in 1..MaxRep, no \in 1..MaxRep,
        ks \in IndexLists(0 - 1, MaxVec * MaxRep)}
    \cup
    UNION {{[fn |-> "get_repeating_vec_element_inds", inds |-> inds,
             n_elements |-> n, n_repetitions_inner |-> ni,
             n_repetitions_outer |-> no] :
                ni \in 1..MaxRep, no \in 1..MaxRep,
                inds \in IndexLists(0 - n, n)} : n \in 0..MaxVec}

-----------------------------------------------------------------------------
(* support_functions: reverse_dict *)

\* the keys of the dictionary d in the order of dict_in.keys(); the
\* dictionaries of this model are filled in ascending order of their keys
RECURSIVE KeysInOrder(_)
KeysInOrder(keys) ==
    IF keys = {} THEN <<>>
    ELSE LET k == CHOOSE x \in keys : \A y \in keys : x <= y
         IN  <<k>> \o KeysInOrder(keys \ {k})

\* dict((v, k) for k, v in d.items())[v]: the key of the last item with value v
LastKeyOf(d, v) ==
    CHOOSE k \in DOMAIN d : d[k] = v /\ \A x \in DOMAIN d : d[x] = v => x <= k

\* a variant without the test of the numbers of keys and values
reverse_dict_unchecked(dict_in, allow_multi_keys, force_list_values) ==
    LET s_vals == {dict_in[k] : k \in DOMAIN dict_in}
    IN  IF ~force_list_values
        THEN DictV([v \in s_vals |-> LastKeyOf(dict_in, v)])
        ELSE DictV([v \in s_vals |-> ListV(<<LastKeyOf(dict_in, v)>>)])

reverse_dict(dict_in, allow_multi_keys, force_list_values) ==
    LET s_vals == {dict_in[k] : k \in DOMAIN dict_in}
        s_keys == DOMAIN dict_in
    IN  IF Cardinality(s_vals) # Cardinality(s_keys)
        THEN IF ~allow_multi_keys THEN Raise("KeyError")
             ELSE DictV([v \in s_vals |->
                            LET has_v(k) == dict_in[k] = v
                            IN  ListV(SelectSeq(KeysInOrder(s_keys), has_v))])
        ELSE IF ~force_list_values
             THEN DictV([v \in s_vals |-> LastKeyOf(dict_in, v)])
             ELSE DictV([v \in s_vals |-> ListV(<<LastKeyOf(dict_in, v)>>)])

\* the dictionaries with keys and values in 1..MaxDict
SmallDicts == UNION {[K -> 1..MaxDict] : K \in SUBSET (1..MaxDict)}

SfDictInputs ==
    {[fn |-> "reverse_dict", dict_in |-> d, allow_multi_keys |-> a,
      force_list_values |-> f] :
        d \in SmallDicts, a \in BOOLEAN, f \in BOOLEAN}

-----------------------------------------------------------------------------
(* support_functions: days_per_month *)

\* dict_base: the days of the months of a year whose February has 28 days
dict_base ==
    (1 :> 31) @@ (2 :> 28) @@ (3 :> 31) @@ (4 :> 30) @@ (5 :> 31) @@ (6 :> 30)
    @@ (7 :> 31) @@ (8 :> 31) @@ (9 :> 30) @@ (10 :> 31) @@ (11 :> 30)
    @@ (12 :> 31)

days_per_month(ym_tup) ==
    LET year == ym_tup[1]
        month == ym_tup[2]
        updated == IF year % 4 = 0 THEN Update(dict_base, 2, 29) ELSE dict_base
    IN  IF month \in DOMAIN updated THEN IntV(updated[month]) ELSE None

\* years divisible by 400, by 100 only, by 4 only, and by none of them
Years == {1600, 1899, 1900, 2000, 2023, 2024, 2100}

SfDateInputs ==
    {[fn |-> "days_per_month", ym_tup |-> <<y, m>>] : y \in Years, m \in 0..13}

\* the calls of the functions of support_functions
SfCalls == SfArrayInputs \cup SfDictInputs \cup SfDateInputs

InitSf ==
    /\ fn_in \in SfCalls
    /\ fn_out = Pending
    /\ history = <<>>
    /\ MainIdle

Call_build_repeating_vec ==
    /\ fn_in.fn = "build_repeating_vec"
    /\ fn_out = Pending
    /\ fn_out' = build_repeating_vec(fn_in.vec, fn_in.n_repetitions_inner,
                                     fn_in.n_repetitions_outer, fn_in.keep_index)
    /\ UNCHANGED <<fn_in, history, main_vars>>

Call_get_repeating_vec_element_inds ==
    /\ fn_in.fn = "get_repeating_vec_element_inds"
    /\ fn_out = Pending
    /\ fn_out' = get_repeating_vec_element_inds(fn_in.inds, fn_in.n_elements,
                                                fn_in.n_repetitions_inner,
                                                fn_in.n_repetitions_outer)
    /\ UNCHANGED <<fn_in, history, main_vars>>

Call_reverse_dict ==
    /\ fn_in.fn = "reverse_dict"
    /\ fn_out = Pending
    /\ fn_out' = reverse_dict(fn_in.dict_in, fn_in.allow_multi_keys,
                              fn_in.force_list_values)
    /\ UNCHANGED <<fn_in, history, main_vars>>

Call_days_per_month ==
    /\ fn_in.fn = "days_per_month"
    /\ fn_out = Pending
    /\ fn_out' = days_per_month(fn_in.ym_tup)
    /\ UNCHANGED <<fn_in, history, main_vars>>

NextSf ==
    \/ Call_build_repeating_vec
    \/ Call_get_repeating_vec_element_inds
    \/ Call_reverse_dict
    \/ Call_days_per_month

SpecSf == InitSf /\ [][NextSf]_vars

-----------------------------------------------------------------------------
(* Properties of get_dimensional_dict (checked under SpecFn) *)

\* a call of get_dimensional_dict on an args dictionary has ended
DictCallDone ==
    /\ fn_in.fn = "get_dimensional_dict"
    /\ IsDict(fn_in.args)
    /\ fn_out # Pending

OtherDimIds == {dim_design_id, dim_future_id, dim_strategy_id}

\* C1: when keys_primary is not None, a map returned by get_dimensional_dict
\* holds the primary key only, with the ids read from keys_primary; the
\* design, future and strategy keys are absent whatever was given for them,
\* and what the call returns or raises is decided by keys_primary alone.
C1_PrimaryPrecedence ==
    (DictCallDone /\ Get(fn_in.args.d, cl_key_primary) # None) =>
        LET vals == get_dimensional_values(Get(fn_in.args.d, cl_key_primary),
                                           dim_primary_id, ",", "int")
        IN  /\ IsDict(fn_out) =>
                  /\ DOMAIN fn_out.d = {dim_primary_id}
                  /\ DOMAIN fn_out.d \cap OtherDimIds = {}
                  /\ fn_out.d[dim_primary_id] = vals
            /\ fn_out = (IF IsRaise(vals) \/ vals = None THEN vals
                         ELSE DictV(dim_primary_id :> vals))

\* a call with a primary selector beside a valid design and a malformed
\* future selector has returned the map of the primary ids
C1_Witness ==
    /\ DictCallDone
    /\ fn_in.args.d[cl_key_primary] = StrV(S_2)
    /\ fn_in.args.d[cl_key_design] = StrV(S_12)
    /\ fn_in.args.d[cl_key_future] = StrV(S_x)
    /\ fn_out = DictV(dim_primary_id :> ListV(<<IntV(2)>>))

\* C2: get_dimensional_dict never returns an empty map: what it returns is
\* None or a map with at least one key, and it is None whenever none of the
\* four dimension arguments is a string (all of them None in particular).
C2_NeverEmptyMap ==
    (fn_in.fn = "get_dimensional_dict" /\ fn_out # Pending) =>
        /\ IsDict(fn_out) => Cardinality(DOMAIN fn_out.d) >= 1
        /\ fn_out = None \/ IsDict(fn_out) \/ IsRaise(fn_out)
        /\ ~IsDict(fn_in.args) => fn_out = None
        /\ (/\ IsDict(fn_in.args)
            /\ \A k \in {cl_key_design, cl_key_future, cl_key_primary,
                         cl_key_strategy} : ~IsStr(Get(fn_in.args.d, k)))
           => fn_out = None

\* a call with the four dimension arguments None has returned None
C2_Witness ==
    /\ DictCallDone
    /\ \A k \in {cl_key_design, cl_key_future, cl_key_primary, cl_key_strategy} :
          fn_in.args.d[k] = None
    /\ fn_out = None

\* the arguments design = "1,2", future = fut, strategy = None, no primary
C9_Args(fut) ==
    DictV([keys_design |-> StrV(S_12), keys_future |-> fut,
           keys_primary |-> None, keys_strategy |-> None])

\* the map {design_id: [1, 2], future_id: []}
C9_Map ==
    DictV((dim_design_id :> ListV(<<IntV(1), IntV(2)>>))
          @@ (dim_future_id :> ListV(<<>>)))

\* C9 as stated: design = "1,2", future = "" and strategy = None, with no
\* primary, give the map {design_id: [1, 2], future_id: []}.
C9_Original ==
    (DictCallDone /\ fn_in.args = C9_Args(StrV(S_empty))) => fn_out = C9_Map

\* C9 as amended: with design = "1,2", strategy = None and no primary, a
\* future selector that reads as the empty list (a file holding the future_id
\* header and no rows) stays in the map as [] beside design = [1, 2]; the
\* inline string "" is no such selector: the call raises RuntimeError.
C9_EmptyDimension ==
    /\ (DictCallDone /\ fn_in.args = C9_Args(StrV(PathHeaderOnly)))
          => fn_out = C9_Map
    /\ (DictCallDone /\ fn_in.args = C9_Args(StrV(S_empty)))
          => fn_out = Raise("RuntimeError")

\* the call with the header-only file as the future selector has returned
C9_Witness ==
    /\ DictCallDone
    /\ fn_in.args = C9_Args(StrV(PathHeaderOnly))
    /\ IsDict(fn_out)
    /\ fn_out.d[dim_future_id] = ListV(<<>>)

-----------------------------------------------------------------------------
(* Properties of main (checked under Spec) *)

\* the number of calls the engine has received: its constructor and its run
EngineInvocations == Len(engine.ctor_calls) + Len(engine.run_calls)

\* C3: when get_dimensional_dict has returned None, main goes no further
\* than the resolver gate, where it raises RuntimeError; the engine is
\* neither constructed nor called.
C3_NullSelectionIsFatal ==
    dict_scenarios = None =>
        /\ pc \in {"resolved", "aborted"}
        /\ pc = "aborted" => result = Raise("RuntimeError")
        /\ pc = "resolved" => result = Pending
        /\ EngineInvocations = 0

\* main has raised at the resolver gate in a run whose regions resolved to a
\* non-empty list
C3_Witness ==
    /\ dict_scenarios = None
    /\ pc = "aborted"
    /\ result = Raise("RuntimeError")
    /\ IsList(regions_run) /\ regions_run.xs # <<>>
    /\ EngineInvocations = 0

\* C4 as stated: when the regions resolve to the empty list, main fails at
\* the guard and the engine is neither constructed nor called, also with a
\* valid dimensional selection.
C4_EmptyRegionsRejected ==
    (regions_run = ListV(<<>>) /\ IsDict(dict_scenarios)) =>
        EngineInvocations = 0

\* C5 as stated: with regions = ALLREGIONS (regions_run None) and a non-null
\* dimensional map, main does not fail at the guard.
C5_AllRegionsPassesGuard ==
    (/\ Get(args.d, "regions") = StrV(ALLREGIONS)
     /\ regions_run = None
     /\ IsDict(dict_scenarios))
    => pc # "aborted"

\* the state of the dispatch lifecycle main is in; a run that raises before
\* the checks have passed ends unvalidated
Lifecycle(p) ==
    CASE p \in {"start", "resolved", "gated", "aborted"} -> "Unvalidated"
      [] p = "validated" -> "Validated"
      [] p \in {"constructing", "constructed", "running"} -> "Dispatched"
      [] p \in {"returned", "logged", "done"} -> "Completed"
      [] p = "failed" -> "Failed"
      [] OTHER -> "Idle"

LifecycleEdges ==
    {<<"Unvalidated", "Validated">>, <<"Validated", "Dispatched">>,
     <<"Dispatched", "Completed">>, <<"Dispatched", "Failed">>}

\* C6: the lifecycle of a run moves along Unvalidated -> Validated ->
\* Dispatched -> {Completed, Failed} only, one state at a time and never
\* back; the engine is constructed and called at most once each, and only
\* with a non-null scenario dictionary and a return_none of False, that is
\* after the resolver gate and the checks have passed.
C6_DispatchLifecycle ==
    /\ [][\/ Lifecycle(pc') = Lifecycle(pc)
          \/ <<Lifecycle(pc), Lifecycle(pc')>> \in LifecycleEdges]_vars
    /\ [](/\ Len(engine.ctor_calls) <= 1
          /\ Len(engine.run_calls) <= 1
          /\ Len(engine.run_calls) <= Len(engine.ctor_calls)
          /\ (EngineInvocations > 0) =
                (Lifecycle(pc) \in {"Dispatched", "Completed", "Failed"})
          /\ EngineInvocations > 0 =>
                /\ IsDict(dict_scenarios)
                /\ return_none(regions_run, dict_scenarios) = BoolV(FALSE))

\* a run has been dispatched and has completed
C6_Witness ==
    /\ pc = "done"
    /\ Len(engine.ctor_calls) = 1
    /\ Len(engine.run_calls) = 1

\* C7: when the engine raises during the run call, main is in the Failed
\* state with the engine's own exception as what it raises; the engine was
\* called once, no completion message was written, and main takes no
\* further step.
C7_EngineFailurePropagates ==
    /\ []((pc = "failed" /\ Len(engine.run_calls) > 0) =>
            /\ engine.exc \in EngineErrors
            /\ result = Raise(engine.exc)
            /\ Len(engine.run_calls) = 1
            /\ Len(engine.ctor_calls) = 1
            /\ log = <<>>)
    /\ [][pc = "running" => pc' \in {"returned", "failed"}]_vars
    /\ [][pc # "failed"]_vars

\* the engine has raised in the run call and main has failed
C7_Witness ==
    /\ pc = "failed"
    /\ Len(engine.run_calls) = 1
    /\ result = Raise("SolverError")

\* C8: when the engine has returned, main writes one completion message,
\* carrying the run identifier sisepuede.id, and then returns 0; no
\* completion message exists before the run call has returned, nor in a run
\* whose engine was not called, and there is never more than one.
C8_CompletionLogged ==
    /\ [](/\ Len(log) <= 1
          /\ log # <<>> =>
                /\ pc \in {"logged", "done"}
                /\ Len(engine.run_calls) = 1
                /\ engine.id # None
                /\ log[1] = [msg |-> "complete", id |-> engine.id,
                             type_log |-> "info"]
          /\ pc = "returned" => log = <<>>
          /\ pc = "done" => (Len(log) = 1 /\ result = Returned(IntV(0)))
          /\ result = Returned(IntV(0)) => pc = "done")
    /\ [][pc = "returned" => (pc' = "logged" /\ Len(log') = 1)]_vars
    /\ [][pc = "logged" => (pc' = "done" /\ log' = log)]_vars

\* a run without an id argument has completed and logged the identifier the
\* engine set
C8_Witness ==
    /\ pc = "done"
    /\ Get(args.d, "id") = None
    /\ log = <<[msg |-> "complete", id |-> StrV(S_generated), type_log |-> "info"]>>
    /\ result = Returned(IntV(0))

\* C10 as stated: the list get_models computed is part of what the engine is
\* given, its constructor or its run call carrying it as `models`.
C10_ModelsReachEngine ==
    (EngineInvocations > 0 /\ IsList(models)) =>
        \/ /\ "models" \in DOMAIN engine.ctor_calls[1]
           /\ engine.ctor_calls[1].models = models
        \/ /\ engine.run_calls # <<>>
           /\ "models" \in DOMAIN engine.run_calls[1]
           /\ engine.run_calls[1].models = models

-----------------------------------------------------------------------------
(* Properties of the selectors, continued (checked under SpecFn) *)

\* the command line keys get_dimensional_dict reads from the dictionary d
ConsultedKeys(d) ==
    IF Get(d, cl_key_primary) # None THEN {cl_key_primary}
    ELSE {cl_key_design, cl_key_future, cl_key_strategy}

\* the keys among ks whose selector in d fails to parse
FailingKeys(d, ks) ==
    {k \in ks : IsRaise(get_dimensional_values(Get(d, k), dict_key_map[k],
                                               ",", "int"))}

\* C11: when the selector of one of the dimensions get_dimensional_dict reads
\* fails to parse, the call raises the exception of such a selector; it
\* returns no map of the other dimensions.
C11_ParseFailureIsFatal ==
    (DictCallDone /\ FailingKeys(fn_in.args.d, ConsultedKeys(fn_in.args.d)) # {})
    => /\ IsRaise(fn_out)
       /\ \E k \in FailingKeys(fn_in.args.d, ConsultedKeys(fn_in.args.d)) :
             fn_out = get_dimensional_values(Get(fn_in.args.d, k),
                                             dict_key_map[k], ",", "int")

\* a call with a valid design selector, a malformed inline future selector,
\* a strategy file without its column and no primary has raised
C11_Witness ==
    /\ DictCallDone
    /\ fn_in.args.d[cl_key_primary] = None
    /\ fn_in.args.d[cl_key_design] = StrV(S_12)
    /\ fn_in.args.d[cl_key_future] = StrV(S_1x)
    /\ fn_in.args.d[cl_key_strategy] = StrV(PathOtherColumns)
    /\ fn_out = Raise("RuntimeError")

\* a call of get_dimensional_values has returned or raised
ValuesCallDone == fn_in.fn = "get_dimensional_values" /\ fn_out # Pending

\* the call was given a string that names no existing file
InlineCall == ValuesCallDone /\ IsStr(fn_in.keys_in)
                  /\ ~path_exists(fn_in.keys_in.s)

\* the number of delimiters in s
CountDelims(s, delim) == Cardinality({i \in DOMAIN s : s[i] = delim})

\* s is one or more runs of digits with one delimiter between neighbours
AllIntegerTokens(s, delim) ==
    /\ Len(s) > 0
    /\ \A i \in DOMAIN s : IsDigit(s[i]) \/ s[i] = delim
    /\ s[1] # delim /\ s[Len(s)] # delim
    /\ \A i \in 1..(Len(s) - 1) : ~(s[i] = delim /\ s[i + 1] = delim)

\* C12: an inline string whose tokens are all integers gives the list of
\* these integers in token order, one element per token: writing the elements
\* back with the delimiter between them gives the string that was passed
C12_InlineIntegersInOrder ==
    (InlineCall /\ fn_in.return_type = "int"
        /\ AllIntegerTokens(fn_in.keys_in.s, fn_in.delim))
    => /\ IsList(fn_out)
       /\ Len(fn_out.xs) = CountDelims(fn_in.keys_in.s, fn_in.delim) + 1
       /\ \A i \in DOMAIN fn_out.xs : fn_out.xs[i].tag = "int"
       /\ Join([i \in DOMAIN fn_out.xs |-> DigitsOfInt(fn_out.xs[i].n)],
               fn_in.delim) = fn_in.keys_in.s

\* the call on "1,2,3" has returned [1, 2, 3]
C12_Witness ==
    /\ InlineCall
    /\ fn_in.keys_in = StrV(<<"1", ",", "2", ",", "3">>)
    /\ fn_out = ListV(<<IntV(1), IntV(2), IntV(3)>>)

\* C13: an inline string with at least one token that is no integer makes the
\* whole call raise, wherever the token stands and however many others are
\* valid: no list comes back
C13_InlineBadTokenIsFatal ==
    (InlineCall /\ fn_in.return_type = "int"
        /\ ~AllIntegerTokens(fn_in.keys_in.s, fn_in.delim))
    => fn_out = Raise("RuntimeError")

\* the call on "1,x,2", two valid tokens around a bad one, has raised
C13_Witness ==
    /\ InlineCall
    /\ fn_in.keys_in = StrV(<<"1", ",", "x", ",", "2">>)
    /\ fn_out = Raise("RuntimeError")

\* the call was given a string that names an existing file pd.read_csv reads
FileCall ==
    /\ ValuesCallDone
    /\ IsStr(fn_in.keys_in)
    /\ path_exists(fn_in.keys_in.s)
    /\ read_csv(fn_in.keys_in.s).readable

\* the columns of the file the call was given
FileColumns == read_csv(fn_in.keys_in.s).columns

\* the file of the call has the key column
HasKeyColumn == FileCall /\ fn_in.key \in DOMAIN FileColumns

\* the cells of the key column of the file of the call
KeyCells == FileColumns[fn_in.key]

\* C14: for an existing file, the call returns the values of the column named
\* after the key in row order when the column is there with values int()
\* takes, and raises an error naming the file and the key when the column is
\* absent, whatever other columns the file has
C14_FileColumnInRowOrder ==
    /\ (HasKeyColumn /\ fn_in.return_type = "int"
            /\ \A i \in DOMAIN KeyCells : KeyCells[i].tag = "int")
       => fn_out = ListV(KeyCells)
    /\ (FileCall /\ ~HasKeyColumn)
       => fn_out = RaiseAbout("RuntimeError", fn_in.keys_in, StrV(fn_in.key))

\* the call on the file with future_id rows 0, 5, 12 has returned [0, 5, 12]
C14_Witness ==
    /\ FileCall
    /\ fn_in.keys_in = StrV(PathTable)
    /\ fn_in.key = "future_id"
    /\ DOMAIN FileColumns # {"future_id"}
    /\ fn_out = ListV(<<IntV(0), IntV(5), IntV(12)>>)

\* int() takes no such cell: a missing value, or text that is no integer
BadCell(x) == x.tag = "nan" \/ (x.tag = "str" /\ ~IsIntLiteral(x.s))

NumericCells(xs) == LET numeric(x) == ~BadCell(x) IN SelectSeq(xs, numeric)

\* C16 as stated: for an existing file with non-numeric values in the key
\* column, the call succeeds and returns the numeric values of the column in
\* row order, the non-numeric rows left out.
C16_NonNumericCellsSkipped ==
    (HasKeyColumn /\ fn_in.return_type = "int"
        /\ \E i \in DOMAIN KeyCells : BadCell(KeyCells[i]))
    => fn_out = CoerceAll("int", NumericCells(KeyCells))

\* a call of get_regions has returned or raised
RegionsCallDone == fn_in.fn = "get_regions" /\ fn_out # Pending

\* the call was given a delimited string: not the sentinel, no existing file
RegionTokensCall ==
    /\ RegionsCallDone
    /\ IsStr(fn_in.region_args)
    /\ fn_in.region_args.s # ALLREGIONS
    /\ ~path_exists(fn_in.region_args.s)

\* the registry entries a token names, by region name or by ISO code
EntriesOf(tok) ==
    {i \in DOMAIN region_registry :
        tok = region_registry[i].region \/ tok = region_registry[i].iso}

\* the regions of the tokens ts that resolve, in token order, one per token
RECURSIVE ResolvedRegions(_)
ResolvedRegions(ts) ==
    IF ts = <<>> THEN <<>>
    ELSE IF EntriesOf(Head(ts)) = {} THEN ResolvedRegions(Tail(ts))
    ELSE <<StrV(region_registry[CHOOSE i \in EntriesOf(Head(ts)) : TRUE].region)>>
            \o ResolvedRegions(Tail(ts))

\* C17: for a delimited region string, get_regions returns the regions of the
\* tokens that resolve in the registry, in token order: tokens that do not
\* resolve are left out without error and a region named twice stands twice
C17_RegionsResolvedInOrder ==
    RegionTokensCall => fn_out = ListV(ResolvedRegions(fn_in.tokens))

\* the call on "bra,xx,chl" has returned the regions of bra and chl
C17_Witness ==
    /\ RegionTokensCall
    /\ fn_in.region_args = StrV(S_bra_xx_chl)
    /\ fn_in.tokens = <<S_bra, S_xx, S_chl>>
    /\ fn_out = ListV(<<StrV(S_brazil), StrV(<<"c", "h", "i", "l", "e">>)>>)

\* the string names an existing file that pd.read_csv cannot read or that has
\* no column named after the region key
UnusableRegionFile(s) ==
    /\ path_exists(s)
    /\ \/ ~read_csv(s).readable
       \/ regions_key \notin DOMAIN read_csv(s).columns

\* C18 as stated: None only for the string "ALLREGIONS" itself, the empty
\* list for every value that is no string, and a list for every other string.
C18_Original ==
    RegionsCallDone =>
        /\ (fn_out = None) <=> (fn_in.region_args = StrV(ALLREGIONS))
        /\ ~IsStr(fn_in.region_args) => fn_out = ListV(<<>>)
        /\ (IsStr(fn_in.region_args) /\ fn_in.region_args.s # ALLREGIONS)
           => IsList(fn_out)

\* C18 (amended): get_regions returns None only for the string "ALLREGIONS"
\* itself, whatever the case or the text around it in other strings; it
\* returns the empty list for every value that is no string; for every other
\* string it returns a list, possibly empty, unless the string names an
\* existing file that cannot be read or has no region column, where it raises
C18_NullOnlyForSentinel ==
    RegionsCallDone =>
        /\ (fn_out = None) <=> (fn_in.region_args = StrV(ALLREGIONS))
        /\ ~IsStr(fn_in.region_args) => fn_out = ListV(<<>>)
        /\ (IsStr(fn_in.region_args) /\ fn_in.region_args.s # ALLREGIONS)
           => IF UnusableRegionFile(fn_in.region_args.s)
              THEN IsRaise(fn_out)
              ELSE IsList(fn_out)

\* the call on the name of an existing file without a region column has raised
C18_Witness ==
    /\ RegionsCallDone
    /\ fn_in.region_args = StrV(PathHeaderOnly)
    /\ fn_out = RaiseAbout("RuntimeError", StrV(PathHeaderOnly),
                           StrV(regions_key))

\* a call of get_models has returned or raised
ModelsCallDone == fn_in.fn = "get_models" /\ fn_out # Pending

\* the spellings of "all" in upper and lower case letters
AllSpellings ==
    {<<a, b, c>> : a \in {"a", "A"}, b \in {"l", "L"}, c \in {"l", "L"}}

\* the sector abbreviations and sector names of the registry
RegisteredSectors == {valid_models[i] : i \in DOMAIN valid_models}

\* the tokens of ts that are registered, in token order
RECURSIVE RegisteredTokens(_)
RegisteredTokens(ts) ==
    IF ts = <<>> THEN <<>>
    ELSE IF Head(ts) \in RegisteredSectors
    THEN <<StrV(Head(ts))>> \o RegisteredTokens(Tail(ts))
    ELSE RegisteredTokens(Tail(ts))

-----------------------------------------------------------------------------
(* Properties of main, continued (checked under Spec) *)

\* C20: the map the engine is called with is the map get_dimensional_dict
\* returned for the arguments of the run: the same keys and under each key the
\* same ids of the same type in the same order
C20_MapReachesEngineUnchanged ==
    \A i \in DOMAIN engine.run_calls :
        LET handed == engine.run_calls[i].dict_scenarios
            resolved == get_dimensional_dict(args)
        IN  /\ handed = resolved
            /\ IsDict(handed)
            /\ DOMAIN handed.d = DOMAIN resolved.d
            /\ \A k \in DOMAIN handed.d :
                   /\ handed.d[k].xs = resolved.d[k].xs
                   /\ \A j \in DOMAIN handed.d[k].xs :
                          handed.d[k].xs[j].tag = "int"

\* the engine has been called with the map of design "1,2" and strategy "1,2"
C20_Witness ==
    /\ Len(engine.run_calls) = 1
    /\ Get(args.d, cl_key_primary) = None
    /\ Get(args.d, cl_key_design) = StrV(S_12)
    /\ Get(args.d, cl_key_strategy) = StrV(S_12)
    /\ engine.run_calls[1].dict_scenarios =
           DictV((dim_design_id :> ListV(<<IntV(1), IntV(2)>>))
                 @@ (dim_strategy_id :> ListV(<<IntV(1), IntV(2)>>)))

-----------------------------------------------------------------------------
(* Properties of the resolved map (checked under SpecFn) *)

\* no value stands at two positions of xs
NoRepeats(xs) == \A i, j \in DOMAIN xs : xs[i] = xs[j] => i = j

\* C21 as stated: in the map get_dimensional_dict returns, each id stands at
\* most once in the list of its dimension, also when the input repeats it.
C21_IdsDeduplicated ==
    (DictCallDone /\ IsDict(fn_out))
    => \A k \in DOMAIN fn_out.d : NoRepeats(fn_out.d[k].xs)

-----------------------------------------------------------------------------
(* Properties of the dispatch (checked under Spec) *)

\* C22 as stated: every future id of the map the engine is called with lies
\* between 0 and n_trials; a requested future id outside this range does not
\* reach the engine.
C22_FutureIdsWithinTrials ==
    \A i \in DOMAIN engine.run_calls :
        LET handed == engine.run_calls[i].dict_scenarios.d
            n_trials == Get(args.d, "n_trials")
        IN  dim_future_id \in DOMAIN handed
            => \A j \in DOMAIN handed[dim_future_id].xs :
                   /\ 0 <= handed[dim_future_id].xs[j].n
                   /\ handed[dim_future_id].xs[j].n <= n_trials.n

-----------------------------------------------------------------------------
(* Properties of calls made one after another (checked under SpecSeq) *)

-----------------------------------------------------------------------------
(* Properties of an unrestricted dimension (checked under SpecFn) *)

\* the selector is the word "all", in upper or lower case letters
IsAllWord(v) == IsStr(v) /\ upper(v.s) = <<"A", "L", "L">>

\* C24 as stated: get_dimensional_values resolves the selector "all" to a
\* result that means no restriction: not the empty list and not an error.
C24_Original ==
    (ValuesCallDone /\ IsAllWord(fn_in.keys_in) /\ fn_in.return_type = "int")
    => (fn_out = None /\ fn_out # ListV(<<>>) /\ ~IsRaise(fn_out))

\* C24 (amended): the selector that means no restriction is the one that is
\* no string (an option that was not given): get_dimensional_values answers
\* None for it, which is neither the empty list nor an error, and
\* get_dimensional_dict then puts no key for that dimension in its map; the
\* word "all" is no such selector: it is read as an inline token and raises
C24_AbsentSelectorUnrestricted ==
    /\ (ValuesCallDone /\ ~IsStr(fn_in.keys_in))
       => (fn_out = None /\ fn_out # ListV(<<>>) /\ ~IsRaise(fn_out))
    /\ (ValuesCallDone /\ IsAllWord(fn_in.keys_in) /\ fn_in.return_type = "int")
       => fn_out = Raise("RuntimeError")
    /\ (DictCallDone /\ IsDict(fn_out))
       => \A k \in ConsultedKeys(fn_in.args.d) :
              ~IsStr(Get(fn_in.args.d, k)) => dict_key_map[k] \notin DOMAIN fn_out.d

\* the call on a selector that was not given has returned None
C24_Witness ==
    /\ ValuesCallDone
    /\ fn_in.keys_in = None
    /\ fn_out = None

\* the design, future and strategy options whose selector is a string
GivenKeys(d) ==
    {k \in {cl_key_design, cl_key_future, cl_key_strategy} : IsStr(Get(d, k))}

\* C25: with no primary selector, the map get_dimensional_dict returns has as
\* keys exactly the dimensions of the design, future and strategy selectors
\* that are strings, each with the list read from its own selector alone; a
\* dimension without a selector gives no key and changes no other list
C25_MapOfGivenDimensions ==
    (DictCallDone /\ Get(fn_in.args.d, cl_key_primary) = None /\ IsDict(fn_out))
    => /\ DOMAIN fn_out.d = {dict_key_map[k] : k \in GivenKeys(fn_in.args.d)}
       /\ \A k \in GivenKeys(fn_in.args.d) :
              /\ IsList(fn_out.d[dict_key_map[k]])
              /\ fn_out.d[dict_key_map[k]] =
                     get_dimensional_values(Get(fn_in.args.d, k),
                                            dict_key_map[k], ",", "int")

\* the call with design "1,2", no future selector and strategy "2" has
\* returned the map of the design and the strategy dimension
C25_Witness ==
    /\ DictCallDone
    /\ Get(fn_in.args.d, cl_key_primary) = None
    /\ Get(fn_in.args.d, cl_key_design) = StrV(S_12)
    /\ Get(fn_in.args.d, cl_key_future) = None
    /\ Get(fn_in.args.d, cl_key_strategy) = StrV(S_2)
    /\ fn_out = DictV((dim_design_id :> ListV(<<IntV(1), IntV(2)>>))
                      @@ (dim_strategy_id :> ListV(<<IntV(2)>>)))

-----------------------------------------------------------------------------
(* Properties of the engine's parameters (checked under Spec) *)

\* the database kinds the engine takes
DatabaseKinds == {StrV(S_sqlite), StrV(S_csv)}

\* C26: the database kind the engine is constructed with is "sqlite" or
\* "csv": the value given is handed over when it is one of the two, and
\* "sqlite" is handed over for any other value and for no value
C26_DatabaseKindNormalised ==
    \A i \in DOMAIN engine.ctor_calls :
        LET given == Get(args.d, "database_type")
            handed == engine.ctor_calls[i].db_type
        IN  /\ handed \in DatabaseKinds
            /\ given \in DatabaseKinds => handed = given
            /\ given \notin DatabaseKinds => handed = StrV(S_sqlite)

\* the engine has been constructed with "sqlite" in a run given "xml"
C26_Witness ==
    /\ Len(engine.ctor_calls) = 1
    /\ Get(args.d, "database_type") = StrV(S_xml)
    /\ engine.ctor_calls[1].db_type = StrV(S_sqlite)

-----------------------------------------------------------------------------
(* The two versions of get_dimensional_values (checked under SpecFn) *)

\* a call of support_functions.get_dimensional_values has returned or raised
SfCallDone == fn_in.fn = "sf.get_dimensional_values" /\ fn_out # Pending

\* what sisepuede_cl.get_dimensional_values gives for the arguments of the call
ClResult ==
    get_dimensional_values(fn_in.keys_in, fn_in.key, fn_in.delim,
                           fn_in.return_type)

\* the result is the list of the converted elements of the list-like input
IsConvertedInput ==
    /\ fn_in.keys_in.tag = "list"
    /\ IsList(fn_out)
    /\ Len(fn_out.xs) = Len(fn_in.keys_in.xs)
    /\ \A i \in DOMAIN fn_out.xs :
           fn_out.xs[i] = Coerce(fn_in.return_type, fn_in.keys_in.xs[i])

\* the result is the list of the one input value, which has the return type
IsWrappedInput ==
    /\ fn_in.keys_in.tag \in {"int", "bool"}
    /\ fn_in.return_type = "int"
    /\ fn_out = ListV(<<fn_in.keys_in>>)

\* the input is a list-like with an element the return type does not take,
\* and the call has raised
IsRejectedInput ==
    /\ fn_in.keys_in.tag = "list"
    /\ \E i \in DOMAIN fn_in.keys_in.xs :
           IsRaise(Coerce(fn_in.return_type, fn_in.keys_in.xs[i]))
    /\ fn_out = Raise("RuntimeError")

\* C27 as stated: on a string the two versions give equal lists or both fail;
\* on a value that is no string the command line version gives None, and
\* where the support version differs from it, it gives the converted elements
\* of a list-like input or the one-element list of a value of the return type.
C27_Original ==
    SfCallDone =>
        /\ IsStr(fn_in.keys_in) => fn_out = ClResult
        /\ ~IsStr(fn_in.keys_in)
           => /\ ClResult = None
              /\ fn_out # ClResult => (IsConvertedInput \/ IsWrappedInput)

\* C27 (amended): on a string the two versions give equal lists or fail
\* alike; on a value that is no string the command line version gives None,
\* and the support version gives the converted elements of a list-like input,
\* raises when an element of the list-like input cannot be converted, gives
\* the one-element list of a value of the return type (not for str), and
\* None as well for every other value
C27_VersionsAgreeOnStrings ==
    SfCallDone =>
        /\ IsStr(fn_in.keys_in) => fn_out = ClResult
        /\ ~IsStr(fn_in.keys_in)
           => /\ ClResult = None
              /\ \/ IsConvertedInput
                 \/ IsRejectedInput
                 \/ IsWrappedInput
                 \/ /\ fn_in.keys_in.tag \notin {"list", "int", "bool"}
                    /\ fn_out = None
                 \/ /\ fn_in.keys_in.tag \in {"int", "bool"}
                    /\ fn_in.return_type = "str"
                    /\ fn_out = None

\* the support version has raised on the list [1, "x"], where the command
\* line version gives None
C27_Witness ==
    /\ SfCallDone
    /\ fn_in.keys_in = ListV(<<IntV(1), StrV(<<"x">>)>>)
    /\ fn_in.return_type = "int"
    /\ fn_out = Raise("RuntimeError")
    /\ ClResult = None

-----------------------------------------------------------------------------
(* Properties of the repeated vectors (checked under SpecSf) *)

\* a call of get_repeating_vec_element_inds has returned
IndsCallDone ==
    fn_in.fn = "get_repeating_vec_element_inds" /\ fn_out # Pending

\* every index is an index of a vector of n elements: below n, and not
\* further from the end than the first element
IndicesOfVector(inds, n) ==
    \A j \in DOMAIN inds : inds[j] < n /\ inds[j] >= 0 - n

-----------------------------------------------------------------------------
(* Properties of reverse_dict (checked under SpecSf) *)

\* a call of reverse_dict without multi keys and without list values has ended
PlainReverseDone ==
    /\ fn_in.fn = "reverse_dict"
    /\ ~fn_in.allow_multi_keys
    /\ ~fn_in.force_list_values
    /\ fn_out # Pending

\* no two keys of d have the same value
DistinctValues(d) == \A j, k \in DOMAIN d : d[j] = d[k] => j = k

\* C29: without multi keys and list values, reverse_dict gives for a
\* dictionary of pairwise different values the mapping v -> k of every pair
\* k -> v and nothing else, which reverse_dict turns back into the
\* dictionary; for a dictionary with a value under two keys it raises KeyError
C29_ReverseDictInverts ==
    PlainReverseDone =>
        IF DistinctValues(fn_in.dict_in)
        THEN /\ IsDict(fn_out)
             /\ DOMAIN fn_out.d = {fn_in.dict_in[k] : k \in DOMAIN fn_in.dict_in}
             /\ \A k \in DOMAIN fn_in.dict_in : fn_out.d[fn_in.dict_in[k]] = k
             /\ reverse_dict(fn_out.d, FALSE, FALSE) = DictV(fn_in.dict_in)
        ELSE fn_out = Raise("KeyError")

\* the dictionary {1: 2, 2: 3} has been reversed to {2: 1, 3: 2}
C29_Witness ==
    /\ PlainReverseDone
    /\ fn_in.dict_in = (1 :> 2) @@ (2 :> 3)
    /\ fn_out = DictV((2 :> 1) @@ (3 :> 2))

-----------------------------------------------------------------------------
(* Properties of days_per_month (checked under SpecSf) *)

\* a leap year of the Gregorian calendar
IsLeapYear(y) == y % 4 = 0 /\ (y % 100 # 0 \/ y % 400 = 0)

\* the number of days of month m of year y in the Gregorian calendar
DaysInMonth(y, m) ==
    IF m = 2 THEN (IF IsLeapYear(y) THEN 29 ELSE 28)
    ELSE IF m \in {4, 6, 9, 11} THEN 30
    ELSE 31

\* C30 as stated: days_per_month((year, month)) is the number of days of the
\* month in the Gregorian calendar for every year and every month 1..12: 29
\* for February in leap years, 28 in the others, 1900 and 2100 among them.
C30_DaysPerMonthGregorian ==
    (fn_in.fn = "days_per_month" /\ fn_out # Pending
        /\ fn_in.ym_tup[2] \in 1..12)
    => fn_out = IntV(DaysInMonth(fn_in.ym_tup[1], fn_in.ym_tup[2]))

====
